---- MODULE Spec2Model ----
(***************************************************************************)
(* promptforge: the template-format classifier (template_format.rs) and    *)
(* the chat assembly pipeline (chat_template.rs, chat_prompt_template.rs). *)
(*                                                                         *)
(* A string is a sequence of one-character strings; fixed message texts    *)
(* of the program are kept as single tokens of such a sequence.            *)
(***************************************************************************)
EXTENDS Integers, Sequences, FiniteSets, TLC

VARIABLES
    api,        \* which struct holds the entries: "ChatTemplate" | "ChatPromptTemplate"
    messages,   \* the struct's `messages: Vec<MessageLike>`
    variables,  \* the mapping handed to the running / last render call
    pc,         \* "start" | "idle" | "joining" (join_all in progress) | "done"
                \* | "formatted" (format returned) | "added1" | "added2"
    slots,      \* join_all's output slots: entry index -> Result of that entry's task
    first_err,  \* the entry whose task was the first to complete with an Err (0: none)
    result,     \* the Result returned by the last render call
    built,      \* the last from_messages call's Result: Ok("Self"), the struct being
                \* `messages`, or the Err
    template,   \* the string handed to the classifier
    classified, \* what the classifier functions returned for `template`
    input_pairs, \* the (role, template) list of the from_messages call followed
    operands,   \* the structs a, b, c of the sum a + b + c followed
    partial_vars, \* the `partials` map handed to merge_vars (`variables` being
                \* its runtime_vars)
    merged      \* the map merge_vars returned

vars == <<api, messages, variables, pc, slots, first_err, result, built,
          template, classified, input_pairs, operands, partial_vars, merged>>

chatVars == <<api, messages, variables, pc, slots, first_err, result, built>>

classVars == <<template, classified>>

inputVars == <<input_pairs, operands, partial_vars, merged>>

-----------------------------------------------------------------------------
(* Bounds *)

MaxEntries == 3

MaxTemplateLen == 5

MaxSpans == 3

MaxPairs == 2

MaxOperandLen == 2

MaxKeys == 2

MaxSumLen == 3

-----------------------------------------------------------------------------
(* Result<T, TemplateError> *)

Ok(v) == [ok |-> TRUE, val |-> v]

Err(e) == [ok |-> FALSE, err |-> e]

MalformedTemplate(detail) == [kind |-> "MalformedTemplate", detail |-> detail]

UnsupportedFormat(detail) == [kind |-> "UnsupportedFormat", detail |-> detail]

MissingVariable(detail) == [kind |-> "MissingVariable", detail |-> detail]

InvalidRoleError == [kind |-> "InvalidRoleError", detail |-> <<>>]

\* impl Display for TemplateError
Display(e) ==
    CASE e.kind = "MalformedTemplate" -> <<"Malformed template: ">> \o e.detail
      [] e.kind = "UnsupportedFormat" -> <<"Unsupported format: ">> \o e.detail
      [] e.kind = "MissingVariable"   -> <<"Missing variable: ">> \o e.detail
      [] OTHER                        -> <<"Invalid role error">>

-----------------------------------------------------------------------------
(* Brace scanner (module braces) *)

IsBrace(c) == c = "{" \/ c = "}"

count_left_braces(s) == Cardinality({i \in 1..Len(s) : s[i] = "{"})

count_right_braces(s) == Cardinality({i \in 1..Len(s) : s[i] = "}"})

has_no_braces(s) == \A i \in 1..Len(s) : ~IsBrace(s[i])

\* TRUE iff s[i .. i+w-1] is a maximal run of exactly w characters c.
RunOf(s, i, w, c) ==
    /\ i + w - 1 <= Len(s)
    /\ \A k \in i..(i + w - 1) : s[k] = c
    /\ (i + w <= Len(s) => s[i + w] # c)

\* Index of the first brace character at or after i, Len(s) + 1 if none.
NextBrace(s, i) ==
    IF \E k \in i..Len(s) : IsBrace(s[k])
    THEN CHOOSE k \in i..Len(s) :
            IsBrace(s[k]) /\ \A m \in i..(k - 1) : ~IsBrace(s[m])
    ELSE Len(s) + 1

\* From position i on, every brace run opens with exactly w '{' and is
\* closed by exactly w '}' before any other brace.
RECURSIVE WellFormedFrom(_, _, _)
WellFormedFrom(s, i, w) ==
    LET b == NextBrace(s, i) IN
    IF b > Len(s) THEN TRUE
    ELSE IF ~RunOf(s, b, w, "{") THEN FALSE
    ELSE LET c == NextBrace(s, b + w) IN
         IF c > Len(s) \/ ~RunOf(s, c, w, "}") THEN FALSE
         ELSE WellFormedFrom(s, c + w, w)

has_only_double_braces(s) == ~has_no_braces(s) /\ WellFormedFrom(s, 1, 2)

has_only_single_braces(s) == ~has_no_braces(s) /\ WellFormedFrom(s, 1, 1)

\* Number of whitespace-delimited tokens of s.
WordCount(s) ==
    Cardinality({i \in 1..Len(s) : s[i] # " " /\ (i = 1 \/ s[i - 1] = " ")})

has_multiple_words_between_braces(s) ==
    \E i \in 1..Len(s) :
        /\ s[i] = "{"
        /\ (i = Len(s) \/ s[i + 1] # "{")
        /\ LET c == NextBrace(s, i + 1) IN
           /\ c <= Len(s)
           /\ s[c] = "}"
           /\ WordCount(SubSeq(s, i + 1, c - 1)) > 1

-----------------------------------------------------------------------------
(* Format classifier (template_format.rs) *)

is_plain_text(s) == has_no_braces(s)

\* Variant: doubled and single pairs are both taken for Mustache.
is_mustache_any_width(s) ==
    /\ (has_only_double_braces(s) \/ has_only_single_braces(s))
    /\ ~has_multiple_words_between_braces(s)

is_mustache(s) == has_only_double_braces(s) /\ ~has_multiple_words_between_braces(s)

\* Variant: the multi-word test is left out.
is_fmtstring_any_words(s) == has_only_single_braces(s)

is_fmtstring(s) == has_only_single_braces(s) /\ ~has_multiple_words_between_braces(s)

\* Variant: the no-brace early return is left out.
is_valid_template_no_shortcut(s) ==
    /\ count_left_braces(s) = count_right_braces(s)
    /\ (has_only_double_braces(s) \/ has_only_single_braces(s))

\* Variant: balance is the only requirement, the style test is left out.
is_valid_template_counts_only(s) ==
    IF has_no_braces(s) THEN TRUE
    ELSE count_left_braces(s) = count_right_braces(s)

is_valid_template(s) ==
    IF has_no_braces(s) THEN TRUE
    ELSE /\ count_left_braces(s) = count_right_braces(s)
         /\ (has_only_double_braces(s) \/ has_only_single_braces(s))

\* Variant: the validity check is left out.
from_template_unchecked(s) ==
    IF is_fmtstring(s) THEN Ok("FmtString")
    ELSE IF is_mustache(s) THEN Ok("Mustache")
    ELSE IF is_plain_text(s) THEN Ok("PlainText")
    ELSE Err(UnsupportedFormat(<<"Unsupported template format">>))

from_template(s) ==
    IF ~is_valid_template(s) THEN Err(MalformedTemplate(<<"Malformed template">>))
    ELSE IF is_fmtstring(s) THEN Ok("FmtString")
    ELSE IF is_mustache(s) THEN Ok("Mustache")
    ELSE IF is_plain_text(s) THEN Ok("PlainText")
    ELSE Err(UnsupportedFormat(<<"Unsupported template format">>))

\* Variant: FmtString is decided without the multi-word test.
detect_template_any_words(s) ==
    IF is_plain_text(s) THEN Ok("PlainText")
    ELSE IF is_mustache(s) THEN Ok("Mustache")
    ELSE IF has_only_single_braces(s) THEN Ok("FmtString")
    ELSE Err(UnsupportedFormat(s))

detect_template(s) ==
    IF is_plain_text(s) THEN Ok("PlainText")
    ELSE IF is_mustache(s) THEN Ok("Mustache")
    ELSE IF is_fmtstring(s) THEN Ok("FmtString")
    ELSE Err(UnsupportedFormat(s))

\* HashMap::iter: the entries of m, in the order `order` of its keys.
iter(m, order) == [i \in 1..Len(order) |-> <<order[i], m[order[i]]>>]

\* Iterator::chain
chain(first, second) == first \o second

\* HashMap::insert
insert(m, k, v) == [x \in DOMAIN m \cup {k} |-> IF x = k THEN v ELSE m[x]]

\* Iterator::collect::<HashMap<_, _>>(): the entries are inserted one by one.
RECURSIVE collect_map(_, _)
collect_map(entries, acc) ==
    IF entries = <<>> THEN acc
    ELSE collect_map(Tail(entries), insert(acc, entries[1][1], entries[1][2]))

\* Variant: the runtime entries come first in the chain.
merge_vars_runtime_first(partials, runtime_vars, partials_order, runtime_order) ==
    collect_map(chain(iter(runtime_vars, runtime_order),
                      iter(partials, partials_order)), <<>>)

\* merge_vars; the two orders are those in which the maps hand out their
\* entries.
merge_vars(partials, runtime_vars, partials_order, runtime_order) ==
    collect_map(chain(iter(partials, partials_order),
                      iter(runtime_vars, runtime_order)), <<>>)

-----------------------------------------------------------------------------
(* Inputs of the classifier *)

Alphabet == {"{", "}", "a", " "}

RECURSIVE StringsOfLen(_)
StringsOfLen(n) ==
    IF n = 0 THEN {<<>>}
    ELSE {Append(s, c) : s \in StringsOfLen(n - 1), c \in Alphabet}

Strings == UNION {StringsOfLen(n) : n \in 0..MaxTemplateLen}

NotClassified ==
    [done |-> FALSE, from_template |-> Ok("PlainText"),
     detect_template |-> Ok("PlainText"), is_valid_template |-> TRUE,
     is_plain_text |-> FALSE, is_mustache |-> FALSE, is_fmtstring |-> FALSE]

-----------------------------------------------------------------------------
(* Strings of the chat model *)

Letters == {"a", "b", "h", "n", "s", "x", "B", "H", "S"}

Digits == {"1"}

Min(a, b) == IF a < b THEN a ELSE b

\* Smallest element of a non-empty set of integers.
Least(S) == CHOOSE i \in S : \A j \in S : i <= j

\* s without its leading and trailing spaces.
Trim(s) ==
    LET ns == {i \in 1..Len(s) : s[i] # " "} IN
    IF ns = {} THEN <<>>
    ELSE SubSeq(s, Least(ns), CHOOSE i \in ns : \A j \in ns : j <= i)

is_valid_identifier(s) ==
    /\ Len(s) > 0
    /\ s[1] \in Letters \cup {"_"}
    /\ \A i \in 1..Len(s) : s[i] \in Letters \cup Digits \cup {"_"}

\* Number of braces that open (and close) one variable reference.
BraceWidth(format) == IF format = "Mustache" THEN 2 ELSE 1

\* The variable names referenced by s from position i on, in order of
\* occurrence; s is a valid template whose references are w braces wide.
RECURSIVE extract_variables(_, _, _)
extract_variables(s, i, w) ==
    LET b == NextBrace(s, i) IN
    IF b > Len(s) THEN <<>>
    ELSE LET c == NextBrace(s, b + w) IN
         <<Trim(SubSeq(s, b + w, c - 1))>> \o extract_variables(s, c + w, w)

\* s from position i on with every variable reference replaced by its value.
RECURSIVE Substitute(_, _, _, _)
Substitute(s, i, w, vs) ==
    LET b == NextBrace(s, i) IN
    IF b > Len(s) THEN SubSeq(s, i, Len(s))
    ELSE LET c == NextBrace(s, b + w) IN
         SubSeq(s, i, b - 1) \o vs[Trim(SubSeq(s, b + w, c - 1))]
            \o Substitute(s, c + w, w, vs)

\* The elements of a sequence of strings written as a list.
RECURSIVE JoinList(_)
JoinList(names) ==
    IF names = <<>> THEN <<>>
    ELSE IF Len(names) = 1 THEN names[1]
    ELSE names[1] \o <<", ">> \o JoinList(Tail(names))

\* The elements of a finite set in some fixed order (HashMap iteration).
RECURSIVE KeysOf(_)
KeysOf(S) ==
    IF S = {} THEN <<>>
    ELSE LET k == CHOOSE x \in S : TRUE IN <<k>> \o KeysOf(S \ {k})

-----------------------------------------------------------------------------
(* Role model, Template, MessagesPlaceholder, MessageLike *)

Roles == {"System", "Human", "Ai", "Placeholder"}

DEFAULT_LIMIT == 1000

Message(role, content) == [role |-> role, content |-> content]

to_message(role, text) ==
    IF role \in {"System", "Human", "Ai"} THEN Ok(Message(role, text))
    ELSE Err(InvalidRoleError)

BaseMessage(m) == [shape |-> "BaseMessage", message |-> m]

RolePromptTemplate(role, t) == [shape |-> "RolePromptTemplate", role |-> role, template |-> t]

Placeholder(name, optional, n) ==
    [shape |-> "Placeholder", variable_name |-> name, optional |-> optional,
     n_messages |-> n]

\* Template::from_template / PromptTemplate::from_template
Template_from_template(tmpl) ==
    LET f == from_template(tmpl) IN
    IF f.ok THEN Ok([template |-> tmpl, template_format |-> f.val]) ELSE f

\* Template::format / PromptTemplate::format
Template_format(t, vs) ==
    LET w       == BraceWidth(t.template_format)
        names   == extract_variables(t.template, 1, w)
        missing == {i \in 1..Len(names) : names[i] \notin DOMAIN vs}
    IN  IF t.template_format = "PlainText" THEN Ok(t.template)
        ELSE IF missing # {}
        THEN Err(MissingVariable(
                <<"Variable '">> \o names[Least(missing)]
                \o <<"' is missing. Expected: [">> \o JoinList(names)
                \o <<"], but received: [">> \o JoinList(KeysOf(DOMAIN vs))
                \o <<"]">>))
        ELSE Ok(Substitute(t.template, 1, w, vs))

\* MessagesPlaceholder::try_from
MessagesPlaceholder_try_from(tmpl) ==
    LET f    == from_template(tmpl)
        w    == IF f.ok THEN BraceWidth(f.val) ELSE 1
        name == Trim(SubSeq(tmpl, w + 1, Len(tmpl) - w))
    IN  IF /\ f.ok
           /\ f.val \in {"FmtString", "Mustache"}
           /\ count_left_braces(tmpl) = w
           /\ tmpl[1] = "{"
           /\ tmpl[Len(tmpl)] = "}"
           /\ is_valid_identifier(name)
        THEN Ok(Placeholder(name, FALSE, DEFAULT_LIMIT))
        ELSE Err(MalformedTemplate(<<"Invalid placeholder: ">> \o tmpl))

-----------------------------------------------------------------------------
(* Placeholder payload: serde_json::from_str::<Vec<MessageEnum>>           *)
(* The payload is a JSON array; one message object is written as a single *)
(* character naming its role, which is also its content.                  *)

MessageCodes == {"h", "a", "s"}

MessageOf(c) ==
    Message(CASE c = "h" -> "Human" [] c = "a" -> "Ai" [] OTHER -> "System", <<c>>)

from_str(v) ==
    IF Len(v) = 0 \/ v[1] # "["
    THEN Err(<<"expected value at line 1 column 1">>)
    ELSE IF v[Len(v)] # "]"
    THEN Err(<<"EOF while parsing a list">>)
    ELSE LET inner == SubSeq(v, 2, Len(v) - 1) IN
         IF inner = <<>> THEN Ok(<<>>)
         ELSE IF /\ Len(inner) % 2 = 1
                 /\ \A i \in 1..Len(inner) :
                       IF i % 2 = 1 THEN inner[i] \in MessageCodes
                       ELSE inner[i] = ","
         THEN Ok([k \in 1..((Len(inner) + 1) \div 2) |-> MessageOf(inner[2 * k - 1])])
         ELSE Err(<<"expected value">>)

\* Variant: the last n elements are kept.
Take_last(s, n) == SubSeq(s, Len(s) - Min(n, Len(s)) + 1, Len(s))

\* Iterator::take(n) followed by collect
Take(s, n) == SubSeq(s, 1, Min(n, Len(s)))

-----------------------------------------------------------------------------
(* Chat assembler: construction *)

\* Variant: a PlainText template is kept as a pending entry too.
RECURSIVE from_messages_loop_all_pending(_, _)
from_messages_loop_all_pending(pairs, acc) ==
    IF pairs = <<>> THEN Ok(acc)
    ELSE LET role == pairs[1][1]
             tmpl == pairs[1][2]
         IN  IF role = "Placeholder"
             THEN LET p == MessagesPlaceholder_try_from(tmpl) IN
                  IF ~p.ok THEN p
                  ELSE from_messages_loop_all_pending(Tail(pairs), Append(acc, p.val))
             ELSE LET t == Template_from_template(tmpl) IN
                  IF ~t.ok THEN t
                  ELSE from_messages_loop_all_pending(
                           Tail(pairs), Append(acc, RolePromptTemplate(role, t.val)))

\* Variant: an invalid pair is skipped and the loop goes on.
RECURSIVE from_messages_loop_skip_invalid(_, _)
from_messages_loop_skip_invalid(pairs, acc) ==
    IF pairs = <<>> THEN Ok(acc)
    ELSE LET role == pairs[1][1]
             tmpl == pairs[1][2]
         IN  IF role = "Placeholder"
             THEN LET p == MessagesPlaceholder_try_from(tmpl) IN
                  IF ~p.ok THEN from_messages_loop_skip_invalid(Tail(pairs), acc)
                  ELSE from_messages_loop_skip_invalid(Tail(pairs), Append(acc, p.val))
             ELSE LET t == Template_from_template(tmpl) IN
                  IF ~t.ok THEN from_messages_loop_skip_invalid(Tail(pairs), acc)
                  ELSE IF t.val.template_format = "PlainText"
                  THEN LET m == to_message(role, tmpl) IN
                       IF ~m.ok THEN Err(InvalidRoleError)
                       ELSE from_messages_loop_skip_invalid(
                                Tail(pairs), Append(acc, BaseMessage(m.val)))
                  ELSE from_messages_loop_skip_invalid(
                           Tail(pairs), Append(acc, RolePromptTemplate(role, t.val)))

\* Variant: the Placeholder role has no arm of its own.
RECURSIVE from_messages_loop_no_placeholder_arm(_, _)
from_messages_loop_no_placeholder_arm(pairs, acc) ==
    IF pairs = <<>> THEN Ok(acc)
    ELSE LET role == pairs[1][1]
             tmpl == pairs[1][2]
             t    == Template_from_template(tmpl)
         IN  IF ~t.ok THEN t
             ELSE IF t.val.template_format = "PlainText"
             THEN LET m == to_message(role, tmpl) IN
                  IF ~m.ok THEN Err(InvalidRoleError)
                  ELSE from_messages_loop_no_placeholder_arm(
                           Tail(pairs), Append(acc, BaseMessage(m.val)))
             ELSE from_messages_loop_no_placeholder_arm(
                      Tail(pairs), Append(acc, RolePromptTemplate(role, t.val)))

\* ChatTemplate::from_messages / ChatPromptTemplate::from_messages
RECURSIVE from_messages_loop(_, _)
from_messages_loop(pairs, acc) ==
    IF pairs = <<>> THEN Ok(acc)
    ELSE LET role == pairs[1][1]
             tmpl == pairs[1][2]
         IN  IF role = "Placeholder"
             THEN LET p == MessagesPlaceholder_try_from(tmpl) IN
                  IF ~p.ok THEN p
                  ELSE from_messages_loop(Tail(pairs), Append(acc, p.val))
             ELSE LET t == Template_from_template(tmpl) IN
                  IF ~t.ok THEN t
                  ELSE IF t.val.template_format = "PlainText"
                  THEN LET m == to_message(role, tmpl) IN
                       IF ~m.ok THEN Err(InvalidRoleError)
                       ELSE from_messages_loop(Tail(pairs),
                                               Append(acc, BaseMessage(m.val)))
                  ELSE from_messages_loop(Tail(pairs),
                                          Append(acc, RolePromptTemplate(role, t.val)))

\* Variant: a list of no pair is refused.
from_messages_refuse_empty(pairs) ==
    IF pairs = <<>> THEN Err(MalformedTemplate(<<"No messages">>))
    ELSE from_messages_loop(pairs, <<>>)

from_messages(pairs) == from_messages_loop(pairs, <<>>)

\* Variant: an empty left operand stays empty.
add_empty_self_absorbs(self, other) ==
    IF self = <<>> THEN self ELSE self \o other

\* Variant: entries of other that self already holds are not added again.
add_without_duplicates(self, other) ==
    self \o SelectSeq(other, LAMBDA e : \A i \in 1..Len(self) : self[i] # e)

\* impl Add
add(self, other) == self \o other

-----------------------------------------------------------------------------
(* Chat assembler: rendering *)

\* Variant: neither struct wraps the engine's error.
FormatPending_unwrapped(a, role, t, vs) ==
    LET f == Template_format(t, vs) IN
    IF ~f.ok THEN f
    ELSE LET m == to_message(role, f.val) IN
         IF ~m.ok THEN Err(InvalidRoleError) ELSE Ok(<<m.val>>)

\* The pending-template arm of the per-entry closure: ChatTemplate passes the
\* engine's error on, ChatPromptTemplate wraps its text in MalformedTemplate.
FormatPending(a, role, t, vs) ==
    LET f == Template_format(t, vs) IN
    IF ~f.ok
    THEN IF a = "ChatTemplate" THEN f
         ELSE Err(MalformedTemplate(Display(f.err)))
    ELSE LET m == to_message(role, f.val) IN
         IF ~m.ok THEN Err(InvalidRoleError) ELSE Ok(<<m.val>>)

\* Variant: the missing-variable error carries a message, not the bare name.
ExpandPlaceholder_decorated_name(p, vs) ==
    IF p.optional THEN Ok(<<>>)
    ELSE IF p.variable_name \notin DOMAIN vs
    THEN Err(MissingVariable(<<"Variable '">> \o p.variable_name \o <<"' is missing">>))
    ELSE LET d == from_str(vs[p.variable_name]) IN
         IF ~d.ok
         THEN Err(MalformedTemplate(<<"Failed to deserialize placeholder: ">> \o d.err))
         ELSE Ok(IF p.n_messages > 0 THEN Take(d.val, p.n_messages) ELSE d.val)

\* Variant: the message-count limit is never applied.
ExpandPlaceholder_no_limit(p, vs) ==
    IF p.optional THEN Ok(<<>>)
    ELSE IF p.variable_name \notin DOMAIN vs
    THEN Err(MissingVariable(p.variable_name))
    ELSE LET d == from_str(vs[p.variable_name]) IN
         IF ~d.ok
         THEN Err(MalformedTemplate(<<"Failed to deserialize placeholder: ">> \o d.err))
         ELSE Ok(d.val)

\* Variant: a limit of zero truncates too (>= 0 in place of > 0).
ExpandPlaceholder_zero_truncates(p, vs) ==
    IF p.optional THEN Ok(<<>>)
    ELSE IF p.variable_name \notin DOMAIN vs
    THEN Err(MissingVariable(p.variable_name))
    ELSE LET d == from_str(vs[p.variable_name]) IN
         IF ~d.ok
         THEN Err(MalformedTemplate(<<"Failed to deserialize placeholder: ">> \o d.err))
         ELSE Ok(IF p.n_messages >= 0 THEN Take(d.val, p.n_messages) ELSE d.val)

\* Variant: the mapping is consulted before the optional flag is tested.
ExpandPlaceholder_lookup_first(p, vs) ==
    IF p.variable_name \notin DOMAIN vs
    THEN Err(MissingVariable(p.variable_name))
    ELSE IF p.optional THEN Ok(<<>>)
    ELSE LET d == from_str(vs[p.variable_name]) IN
         IF ~d.ok
         THEN Err(MalformedTemplate(<<"Failed to deserialize placeholder: ">> \o d.err))
         ELSE Ok(IF p.n_messages > 0 THEN Take(d.val, p.n_messages) ELSE d.val)

\* Variant: a payload that does not decode is taken for an empty history.
ExpandPlaceholder_swallow_decode(p, vs) ==
    IF p.optional THEN Ok(<<>>)
    ELSE IF p.variable_name \notin DOMAIN vs
    THEN Err(MissingVariable(p.variable_name))
    ELSE LET d == from_str(vs[p.variable_name]) IN
         IF ~d.ok THEN Ok(<<>>)
         ELSE Ok(IF p.n_messages > 0 THEN Take(d.val, p.n_messages) ELSE d.val)

\* Variant: the optional flag only excuses a variable that is absent.
ExpandPlaceholder_optional_if_absent(p, vs) ==
    IF p.variable_name \notin DOMAIN vs
    THEN IF p.optional THEN Ok(<<>>) ELSE Err(MissingVariable(p.variable_name))
    ELSE LET d == from_str(vs[p.variable_name]) IN
         IF ~d.ok
         THEN Err(MalformedTemplate(<<"Failed to deserialize placeholder: ">> \o d.err))
         ELSE Ok(IF p.n_messages > 0 THEN Take(d.val, p.n_messages) ELSE d.val)

\* The placeholder arm of the per-entry closure.
ExpandPlaceholder(p, vs) ==
    IF p.optional THEN Ok(<<>>)
    ELSE IF p.variable_name \notin DOMAIN vs
    THEN Err(MissingVariable(p.variable_name))
    ELSE LET d == from_str(vs[p.variable_name]) IN
         IF ~d.ok
         THEN Err(MalformedTemplate(<<"Failed to deserialize placeholder: ">> \o d.err))
         ELSE Ok(IF p.n_messages > 0 THEN Take(d.val, p.n_messages) ELSE d.val)

\* Variant: a resolved entry whose text names a variable takes its value.
RenderEntry_lookup_resolved(a, ml, vs) ==
    CASE ml.shape = "BaseMessage" ->
            IF ml.message.content \in DOMAIN vs
            THEN Ok(<<Message(ml.message.role, vs[ml.message.content])>>)
            ELSE Ok(<<ml.message>>)
      [] ml.shape = "RolePromptTemplate" -> FormatPending(a, ml.role, ml.template, vs)
      [] OTHER                           -> ExpandPlaceholder(ml, vs)

\* The closure format_messages maps over the entries.
RenderEntry(a, ml, vs) ==
    CASE ml.shape = "BaseMessage"        -> Ok(<<ml.message>>)
      [] ml.shape = "RolePromptTemplate" -> FormatPending(a, ml.role, ml.template, vs)
      [] OTHER                           -> ExpandPlaceholder(ml, vs)

Pending == [pending |-> TRUE]

IsDone(r) == r # Pending

\* Variant: later vectors are put in front of earlier ones.
RECURSIVE Flatten_reversed(_)
Flatten_reversed(vecs) ==
    IF vecs = <<>> THEN <<>> ELSE Flatten_reversed(Tail(vecs)) \o Head(vecs)

\* Variant: a message equal to the one put out just before it is left out.
RECURSIVE Flatten_merge_adjacent(_)
Flatten_merge_adjacent(vecs) ==
    IF vecs = <<>> THEN <<>>
    ELSE LET rest == Flatten_merge_adjacent(Tail(vecs))
             head == Head(vecs)
         IN  IF head # <<>> /\ rest # <<>> /\ head[Len(head)] = rest[1]
             THEN head \o Tail(rest) ELSE head \o rest

RECURSIVE Flatten(_)
Flatten(vecs) == IF vecs = <<>> THEN <<>> ELSE Head(vecs) \o Flatten(Tail(vecs))

\* Variant: the error of the highest-indexed failing entry is returned.
Collect_last_error(results) ==
    LET failed == {i \in 1..Len(results) : ~results[i].ok} IN
    IF failed # {}
    THEN Err(results[CHOOSE i \in failed : \A j \in failed : j <= i].err)
    ELSE Ok(Flatten([i \in 1..Len(results) |-> results[i].val]))

\* results.into_iter().collect::<Result<Vec<_>, _>>().map(flatten)
Collect(results) ==
    LET failed == {i \in 1..Len(results) : ~results[i].ok} IN
    IF failed # {} THEN Err(results[Least(failed)].err)
    ELSE Ok(Flatten([i \in 1..Len(results) |-> results[i].val]))

\* Variant: the closure is evaluated for every entry, failed or not.
RECURSIVE LazySlots_eager(_, _, _)
LazySlots_eager(ms, vs, i) ==
    IF i > Len(ms) THEN <<>>
    ELSE <<RenderEntry("ChatPromptTemplate", ms[i], vs)>> \o LazySlots_eager(ms, vs, i + 1)

\* ChatPromptTemplate::format_messages: the lazy iterator chain evaluates the
\* closure entry by entry and stops at the first Err.
RECURSIVE LazySlots(_, _, _)
LazySlots(ms, vs, i) ==
    IF i > Len(ms) THEN <<>>
    ELSE LET r == RenderEntry("ChatPromptTemplate", ms[i], vs) IN
         IF r.ok THEN <<r>> \o LazySlots(ms, vs, i + 1)
         ELSE <<r>> \o [k \in 1..(Len(ms) - i) |-> Pending]

Evaluated(ss) == {i \in 1..Len(ss) : IsDone(ss[i])}

\* Variant: every element is followed by the separator.
RECURSIVE join_trailing(_, _)
join_trailing(strs, sep) ==
    IF strs = <<>> THEN <<>>
    ELSE Head(strs) \o sep \o join_trailing(Tail(strs), sep)

\* [String]::join
RECURSIVE join(_, _)
join(strs, sep) ==
    IF strs = <<>> THEN <<>>
    ELSE IF Len(strs) = 1 THEN strs[1]
    ELSE Head(strs) \o sep \o join(Tail(strs), sep)

\* Formattable::format for ChatTemplate: block_on drives format_messages to
\* its result; `?` hands an Err back as it is.
format(ms, vs) ==
    LET r == Collect([i \in 1..Len(ms) |-> RenderEntry("ChatTemplate", ms[i], vs)]) IN
    IF ~r.ok THEN r
    ELSE Ok(join([i \in 1..Len(r.val) |-> r.val[i].content], <<"\n">>))

-----------------------------------------------------------------------------
(* Inputs of the chat model *)

Apis == {"ChatTemplate", "ChatPromptTemplate"}

VarN == <<"n">>

VarH == <<"h">>

VarNames == {VarN, VarH}

\* (role, template) pairs handed to from_messages; the last two are invalid.
PairPool ==
    { <<"System", <<"S">>>>,
      <<"Human", <<"H", "{", "n", "}">>>>,
      <<"Placeholder", <<"{", "h", "}">>>>,
      <<"Human", <<"{", "n">>>>,
      <<"Placeholder", <<"S">>>> }

RECURSIVE SeqsOfLen(_, _)
SeqsOfLen(S, n) ==
    IF n = 0 THEN {<<>>}
    ELSE {Append(q, x) : q \in SeqsOfLen(S, n - 1), x \in S}

SeqsUpTo(S, n) == UNION {SeqsOfLen(S, k) : k \in 0..n}

\* The lists handed to from_messages.
PairLists == SeqsUpTo(PairPool, MaxEntries)

\* The non-empty structs from_messages returns for them.
Operands == {from_messages(pairs).val :
                pairs \in {q \in PairLists : q # <<>> /\ from_messages(q).ok}}

\* (variable name, optional, message-count limit) of the placeholders the
\* caller configures itself.
Configured == { <<VarH, TRUE, 2>>, <<VarH, FALSE, 0>>, <<VarH, FALSE, 2>> }

Bob == <<"B">>

\* A history of three messages.
History == <<"[", "h", ",", "a", ",", "s", "]">>

\* A history of no message.
EmptyHistory == <<"[", "]">>

\* The mappings handed to a render call: n absent or a name, h absent, a
\* string that is no JSON list, or a history.
Mappings ==
    { f \in UNION {[D -> {Bob, History, EmptyHistory}] : D \in SUBSET VarNames} :
        VarN \in DOMAIN f => f[VarN] = Bob }

NoResult == Ok(<<>>)

-----------------------------------------------------------------------------
(* The chat assembler as a state machine *)

Init ==
    /\ api \in Apis
    /\ messages = <<>>
    /\ variables = <<>>
    /\ pc = "start"
    /\ slots = <<>>
    /\ first_err = 0
    /\ result = NoResult
    /\ built = Ok("Self")
    /\ template = <<>>
    /\ classified = NotClassified
    /\ input_pairs = <<>>
    /\ operands = <<>>
    /\ partial_vars = <<>>
    /\ merged = <<>>

AtRest == pc \in {"idle", "done", "formatted"}

\* A constructor hands out a new value: nothing of an earlier render is left.
FreshRender ==
    /\ variables' = <<>>
    /\ pc' = "idle"
    /\ slots' = <<>>
    /\ first_err' = 0
    /\ result' = NoResult

\* from_messages: on Err no struct is returned.
FromMessages(pairs) ==
    /\ pc = "start"
    /\ LET r == from_messages(pairs) IN
       /\ messages' = IF r.ok THEN r.val ELSE <<>>
       /\ built' = IF r.ok THEN Ok("Self") ELSE r
    /\ FreshRender
    /\ UNCHANGED api
    /\ UNCHANGED <<classVars, inputVars>>

\* The caller appends a configured MessagesPlaceholder to the pub field
\* `messages`.
PushPlaceholder(name, optional, n) ==
    /\ AtRest
    /\ built.ok
    /\ Len(messages) < MaxEntries
    /\ messages' = Append(messages, Placeholder(name, optional, n))
    /\ FreshRender
    /\ UNCHANGED <<api, built>>
    /\ UNCHANGED <<classVars, inputVars>>

\* self + other, with other built by from_messages
Add(other) ==
    /\ AtRest
    /\ built.ok
    /\ Len(messages) + Len(other) <= MaxEntries
    /\ messages' = add(messages, other)
    /\ FreshRender
    /\ UNCHANGED <<api, built>>
    /\ UNCHANGED <<classVars, inputVars>>

\* ChatTemplate::invoke -> format_messages: the futures are created and
\* handed to join_all; none has run yet.
Invoke(vs) ==
    /\ AtRest
    /\ built.ok
    /\ api = "ChatTemplate"
    /\ variables' = vs
    /\ slots' = [i \in 1..Len(messages) |-> Pending]
    /\ first_err' = 0
    /\ result' = NoResult
    /\ pc' = "joining"
    /\ UNCHANGED <<api, messages, built>>
    /\ UNCHANGED <<classVars, inputVars>>

\* One entry's future runs to completion and fills its slot.
PollTask(i) ==
    /\ pc = "joining"
    /\ i \in 1..Len(messages)
    /\ ~IsDone(slots[i])
    /\ slots' = [slots EXCEPT ![i] = RenderEntry(api, messages[i], variables)]
    /\ first_err' = IF first_err = 0 /\ ~slots'[i].ok THEN i ELSE first_err
    /\ UNCHANGED <<api, messages, variables, pc, result, built>>
    /\ UNCHANGED <<classVars, inputVars>>

\* Variant: the render takes the entries out of the struct.
JoinAll_takes_entries ==
    /\ pc = "joining"
    /\ \A i \in 1..Len(messages) : IsDone(slots[i])
    /\ result' = Collect(slots)
    /\ pc' = "done"
    /\ messages' = <<>>
    /\ UNCHANGED <<api, variables, slots, first_err, built>>
    /\ UNCHANGED <<classVars, inputVars>>

\* join_all resolves once every future has completed; the results are
\* collected in slot order.
JoinAll ==
    /\ pc = "joining"
    /\ \A i \in 1..Len(messages) : IsDone(slots[i])
    /\ result' = Collect(slots)
    /\ pc' = "done"
    /\ UNCHANGED <<api, messages, variables, slots, first_err, built>>
    /\ UNCHANGED <<classVars, inputVars>>

\* ChatPromptTemplate::invoke -> format_messages (synchronous)
InvokeSync(vs) ==
    /\ AtRest
    /\ built.ok
    /\ api = "ChatPromptTemplate"
    /\ variables' = vs
    /\ LET ss == LazySlots(messages, vs, 1)
           ev == Evaluated(ss)
       IN  /\ slots' = ss
           /\ first_err' = IF \E i \in ev : ~ss[i].ok
                           THEN Least({i \in ev : ~ss[i].ok}) ELSE 0
           /\ result' = Collect(SubSeq(ss, 1, Cardinality(ev)))
    /\ pc' = "done"
    /\ UNCHANGED <<api, messages, built>>
    /\ UNCHANGED <<classVars, inputVars>>

\* Formattable::format: the render runs to completion inside block_on.
Format(vs) ==
    /\ AtRest
    /\ built.ok
    /\ api = "ChatTemplate"
    /\ variables' = vs
    /\ slots' = [i \in 1..Len(messages) |-> RenderEntry(api, messages[i], vs)]
    /\ first_err' = IF \E i \in 1..Len(messages) : ~slots'[i].ok
                    THEN Least({i \in 1..Len(messages) : ~slots'[i].ok}) ELSE 0
    /\ result' = format(messages, vs)
    /\ pc' = "formatted"
    /\ UNCHANGED <<api, messages, built>>
    /\ UNCHANGED <<classVars, inputVars>>

Next ==
    \/ \E pairs \in PairLists : FromMessages(pairs)
    \/ \E p \in Configured : PushPlaceholder(p[1], p[2], p[3])
    \/ \E other \in Operands : Add(other)
    \/ \E vs \in Mappings : Invoke(vs)
    \/ \E i \in 1..MaxEntries : PollTask(i)
    \/ JoinAll
    \/ \E vs \in Mappings : InvokeSync(vs)
    \/ \E vs \in Mappings : Format(vs)

Spec == Init /\ [][Next]_vars

-----------------------------------------------------------------------------
(* from_messages followed on one list of pairs, and the renders of its struct *)

BuildRoles == {"System", "Human", "Placeholder"}

\* Plain text (which spells a variable's name), a FmtString, a Mustache, an
\* unbalanced and a multi-word template.
BuildTemplates ==
    { <<"n">>,
      <<"{", "n", "}">>,
      <<"{", "{", "n", "}", "}">>,
      <<"{", "n">>,
      <<"{", "a", " ", "a", "}">> }

BuildPool == {<<role, tmpl>> : role \in BuildRoles, tmpl \in BuildTemplates}

BuildLists == SeqsUpTo(BuildPool, MaxPairs)

InitBuild ==
    /\ api \in Apis
    /\ messages = <<>>
    /\ variables = <<>>
    /\ pc = "start"
    /\ slots = <<>>
    /\ first_err = 0
    /\ result = NoResult
    /\ built = Ok("Self")
    /\ template = <<>>
    /\ classified = NotClassified
    /\ input_pairs \in BuildLists
    /\ operands = <<>>
    /\ partial_vars = <<>>
    /\ merged = <<>>

NextBuild ==
    \/ FromMessages(input_pairs)
    \/ \E vs \in Mappings : Invoke(vs)
    \/ \E i \in 1..MaxPairs : PollTask(i)
    \/ JoinAll
    \/ \E vs \in Mappings : InvokeSync(vs)
    \/ \E vs \in Mappings : Format(vs)

SpecBuild == InitBuild /\ [][NextBuild]_vars

-----------------------------------------------------------------------------
(* The sum a + b + c followed on three structs *)

\* The structs from_messages returns, the empty one included.
OperandPool == {<<>>} \cup {o \in Operands : Len(o) <= MaxOperandLen}

InitAdd ==
    /\ api \in Apis
    /\ messages = <<>>
    /\ variables = <<>>
    /\ pc = "start"
    /\ slots = <<>>
    /\ first_err = 0
    /\ result = NoResult
    /\ built = Ok("Self")
    /\ template = <<>>
    /\ classified = NotClassified
    /\ input_pairs = <<>>
    /\ operands \in OperandPool \X OperandPool \X OperandPool
    /\ partial_vars = <<>>
    /\ merged = <<>>

\* a + b
AddFirst ==
    /\ pc = "start"
    /\ messages' = add(operands[1], operands[2])
    /\ pc' = "added1"
    /\ UNCHANGED <<api, variables, slots, first_err, result, built>>
    /\ UNCHANGED <<classVars, inputVars>>

\* (a + b) + c
AddSecond ==
    /\ pc = "added1"
    /\ messages' = add(messages, operands[3])
    /\ pc' = "added2"
    /\ UNCHANGED <<api, variables, slots, first_err, result, built>>
    /\ UNCHANGED <<classVars, inputVars>>

NextAdd == AddFirst \/ AddSecond

SpecAdd == InitAdd /\ [][NextAdd]_vars

-----------------------------------------------------------------------------
(* merge_vars applied to every pair of small maps *)

KeyNames == <<"a", "b", "c", "d">>

MergeKeys == {<<KeyNames[i]>> : i \in 1..MaxKeys}

\* The empty string, a partial's value, a runtime value.
MergeValues == {<<>>, <<"p">>, <<"r">>}

MergeMaps == UNION {[D -> MergeValues] : D \in SUBSET MergeKeys}

\* The orders in which a map of key set S may hand out its entries.
Orders(S) ==
    {q \in SeqsOfLen(S, Cardinality(S)) : \A x \in S : \E i \in 1..Len(q) : q[i] = x}

InitMerge ==
    /\ api = "ChatTemplate"
    /\ messages = <<>>
    /\ variables \in MergeMaps
    /\ pc = "start"
    /\ slots = <<>>
    /\ first_err = 0
    /\ result = NoResult
    /\ built = Ok("Self")
    /\ template = <<>>
    /\ classified = NotClassified
    /\ input_pairs = <<>>
    /\ operands = <<>>
    /\ partial_vars \in MergeMaps
    /\ merged = <<>>

MergeVars(partials_order, runtime_order) ==
    /\ pc = "start"
    /\ merged' = merge_vars(partial_vars, variables, partials_order, runtime_order)
    /\ pc' = "merged"
    /\ UNCHANGED <<api, messages, variables, slots, first_err, result, built>>
    /\ UNCHANGED <<classVars, input_pairs, operands, partial_vars>>

NextMerge ==
    \E po \in Orders(DOMAIN partial_vars), ro \in Orders(DOMAIN variables) :
        MergeVars(po, ro)

SpecMerge == InitMerge /\ [][NextMerge]_vars

-----------------------------------------------------------------------------
(* The sum a + b rendered *)

\* The pairs of structs whose sum holds at most MaxSumLen entries.
SumOperands ==
    {ab \in ({<<>>} \cup Operands) \X ({<<>>} \cup Operands) :
        Len(ab[1]) + Len(ab[2]) <= MaxSumLen}

InitSum ==
    /\ api \in Apis
    /\ messages = <<>>
    /\ variables = <<>>
    /\ pc = "start"
    /\ slots = <<>>
    /\ first_err = 0
    /\ result = NoResult
    /\ built = Ok("Self")
    /\ template = <<>>
    /\ classified = NotClassified
    /\ input_pairs = <<>>
    /\ operands \in SumOperands
    /\ partial_vars = <<>>
    /\ merged = <<>>

\* a + b
Sum ==
    /\ pc = "start"
    /\ messages' = add(operands[1], operands[2])
    /\ FreshRender
    /\ UNCHANGED <<api, built>>
    /\ UNCHANGED <<classVars, inputVars>>

NextSum ==
    \/ Sum
    \/ \E vs \in Mappings : Invoke(vs)
    \/ \E i \in 1..MaxSumLen : PollTask(i)
    \/ JoinAll
    \/ \E vs \in Mappings : InvokeSync(vs)

SpecSum == InitSum /\ [][NextSum]_vars

-----------------------------------------------------------------------------
(* The classifier applied to every string over Alphabet *)

InitClassify ==
    /\ api = "ChatTemplate"
    /\ messages = <<>>
    /\ variables = <<>>
    /\ pc = "start"
    /\ slots = <<>>
    /\ first_err = 0
    /\ result = NoResult
    /\ built = Ok("Self")
    /\ template \in Strings
    /\ classified = NotClassified
    /\ input_pairs = <<>>
    /\ operands = <<>>
    /\ partial_vars = <<>>
    /\ merged = <<>>

Classify ==
    /\ ~classified.done
    /\ classified' = [done |-> TRUE,
                      from_template |-> from_template(template),
                      detect_template |-> detect_template(template),
                      is_valid_template |-> is_valid_template(template),
                      is_plain_text |-> is_plain_text(template),
                      is_mustache |-> is_mustache(template),
                      is_fmtstring |-> is_fmtstring(template)]
    /\ UNCHANGED template
    /\ UNCHANGED <<chatVars, inputVars>>

NextClassify == Classify

SpecClassify == InitClassify /\ [][NextClassify]_vars

-----------------------------------------------------------------------------
(* The classifier applied to templates put together from brace spans *)

SpanPool ==
    { <<"{", "a", "}">>,
      <<"{", "{", "a", "}", "}">>,
      <<"{", "a", " ", "a", "}">>,
      <<"{", "{", "a", " ", "a", "}", "}">>,
      <<"a">>,
      <<" ">>,
      <<"{">>,
      <<"}">> }

RECURSIVE Concat(_)
Concat(q) == IF q = <<>> THEN <<>> ELSE Head(q) \o Concat(Tail(q))

SpanStrings == {Concat(q) : q \in SeqsUpTo(SpanPool, MaxSpans)}

InitSpans ==
    /\ api = "ChatTemplate"
    /\ messages = <<>>
    /\ variables = <<>>
    /\ pc = "start"
    /\ slots = <<>>
    /\ first_err = 0
    /\ result = NoResult
    /\ built = Ok("Self")
    /\ template \in SpanStrings
    /\ classified = NotClassified
    /\ input_pairs = <<>>
    /\ operands = <<>>
    /\ partial_vars = <<>>
    /\ merged = <<>>

NextSpans == Classify

SpecSpans == InitSpans /\ [][NextSpans]_vars

-----------------------------------------------------------------------------
(* Vocabulary of the properties *)

Done == pc = "done"

Entries == 1..Len(messages)

IsPending(i) == messages[i].shape = "RolePromptTemplate"

IsPlaceholder(i) == messages[i].shape = "Placeholder"

\* Every entry before i has been rendered without error.
EarlierAllOk(i) == \A j \in 1..(i - 1) : IsDone(slots[j]) /\ slots[j].ok

\* Entry i is a non-optional placeholder whose variable is not in the mapping.
AbsentPlaceholder(i) ==
    /\ IsPlaceholder(i)
    /\ ~messages[i].optional
    /\ messages[i].variable_name \notin DOMAIN variables

\* Entry i is a non-optional placeholder whose variable is in the mapping.
PresentPlaceholder(i) ==
    /\ IsPlaceholder(i)
    /\ ~messages[i].optional
    /\ messages[i].variable_name \in DOMAIN variables

\* The payload of placeholder entry i, as supplied and as decoded.
Payload(i) == variables[messages[i].variable_name]

Decodes(i) == from_str(Payload(i)).ok

HistoryOf(i) == from_str(Payload(i)).val

\* Number of messages the entries before i put into the output.
RECURSIVE Offset(_)
Offset(i) == IF i <= 1 THEN 0 ELSE Offset(i - 1) + Len(slots[i - 1].val)

\* The part of the output that entry i contributed.
Segment(i) == SubSeq(result.val, Offset(i) + 1, Offset(i) + Len(slots[i].val))

\* The names referenced by pending entry i that the mapping lacks.
ReferencedBy(i) ==
    extract_variables(messages[i].template.template, 1,
                      BraceWidth(messages[i].template.template_format))

LacksVariable(i) ==
    IsPending(i) /\ \E k \in 1..Len(ReferencedBy(i)) : ReferencedBy(i)[k] \notin DOMAIN variables

FirstLacking(i) ==
    ReferencedBy(i)[Least({k \in 1..Len(ReferencedBy(i)) :
                              ReferencedBy(i)[k] \notin DOMAIN variables})]

\* text occurs in s
Occurs(text, s) ==
    \E k \in 1..(Len(s) - Len(text) + 1) : SubSeq(s, k, k + Len(text) - 1) = text

-----------------------------------------------------------------------------
(* C1 *)

\* What one entry contributes by itself when it renders: the stored message
\* of a resolved entry, the one rendered message of a pending entry, the
\* decoded history (cut to the entry's limit) of a placeholder entry.
OwnMessages(ml) ==
    CASE ml.shape = "BaseMessage" -> <<ml.message>>
      [] ml.shape = "RolePromptTemplate" ->
            <<Message(ml.role,
                      Substitute(ml.template.template, 1,
                                 BraceWidth(ml.template.template_format), variables))>>
      [] OTHER ->
            IF ml.optional THEN <<>>
            ELSE LET h == from_str(variables[ml.variable_name]).val IN
                 IF ml.n_messages > 0 /\ ml.n_messages < Len(h)
                 THEN SubSeq(h, 1, ml.n_messages) ELSE h

RECURSIVE ConcatOwn(_)
ConcatOwn(ms) == IF ms = <<>> THEN <<>> ELSE OwnMessages(ms[1]) \o ConcatOwn(Tail(ms))

\* C1: whenever format_messages/invoke succeeds, the returned list is the
\* concatenation, in entry order, of each entry's own messages: the stored
\* message of a resolved entry, the single rendered message of a pending
\* entry, the decoded history in its original order of a placeholder entry.
C1_FlattenInEntryOrder == (Done /\ result.ok) => result.val = ConcatOwn(messages)

\* [resolved, placeholder, pending] rendered by ChatTemplate to 4 messages,
\* the two history messages between the other two.
C1_Witness ==
    /\ Done /\ result.ok
    /\ api = "ChatTemplate"
    /\ Len(messages) = 3
    /\ messages[1].shape = "BaseMessage"
    /\ PresentPlaceholder(2)
    /\ IsPending(3)
    /\ Len(result.val) = 4
    /\ result.val[1] = messages[1].message
    /\ <<result.val[2], result.val[3]>> = SubSeq(HistoryOf(2), 1, 2)
    /\ result.val[4].role = messages[3].role

-----------------------------------------------------------------------------
(* C2 *)

\* The entries whose rendering fails with the given mapping.
FailingEntries == {i \in Entries : ~RenderEntry(api, messages[i], variables).ok}

\* C2: when entries fail during one format_messages call, the error returned
\* is the one of the lowest-indexed failing entry, whatever the order in
\* which join_all's tasks completed; errors are not aggregated.
C2_LowestIndexedErrorWins ==
    (Done /\ FailingEntries # {}) =>
        /\ ~result.ok
        /\ result.err = RenderEntry(api, messages[Least(FailingEntries)], variables).err

\* Two entries failed with different errors, and the higher-indexed one
\* completed first.
C2_Witness ==
    /\ Done
    /\ api = "ChatTemplate"
    /\ Cardinality(FailingEntries) >= 2
    /\ first_err > Least(FailingEntries)
    /\ slots[first_err].err # result.err
    /\ result.err = slots[Least(FailingEntries)].err

-----------------------------------------------------------------------------
(* C3 *)

\* C3 as stated: a pending entry referencing a variable absent from the
\* mapping fails the render with MissingVariable carrying the variable's name.
C3_Original ==
    Done => \A i \in Entries :
        (LacksVariable(i) /\ EarlierAllOk(i)) =>
            /\ ~result.ok
            /\ result.err = MissingVariable(FirstLacking(i))

\* The engine's message for a template whose only reference is name, given
\* the empty mapping.
MissingMessage(name) ==
    <<"Variable '">> \o name \o <<"' is missing. Expected: [">> \o name
        \o <<"], but received: [", "]">>

\* C3 (amended): a pending entry referencing a variable absent from the
\* mapping fails the whole render.  ChatTemplate returns the engine's
\* MissingVariable error, whose text is a message naming the variable and not
\* the bare name ("Variable 'name' is missing. Expected: [name], but
\* received: []" for the empty mapping); ChatPromptTemplate returns
\* MalformedTemplate carrying the display text of that error.
C3_Amended ==
    Done => \A i \in Entries :
        LacksVariable(i) =>
            /\ ~result.ok
            /\ EarlierAllOk(i) =>
                 IF api = "ChatTemplate"
                 THEN /\ result.err.kind = "MissingVariable"
                      /\ result.err.detail # FirstLacking(i)
                      /\ Occurs(FirstLacking(i), result.err.detail)
                      /\ (variables = <<>> /\ Len(ReferencedBy(i)) = 1) =>
                            result.err.detail = MissingMessage(FirstLacking(i))
                 ELSE /\ result.err.kind = "MalformedTemplate"
                      /\ result.err.detail[1] = "Missing variable: "
                      /\ Occurs(FirstLacking(i), result.err.detail)

\* Both structs have rendered a lone pending entry with the empty mapping.
C3_Witness ==
    /\ Done
    /\ Len(messages) = 1
    /\ LacksVariable(1)
    /\ variables = <<>>
    /\ api = "ChatPromptTemplate"
    /\ result.err.kind = "MalformedTemplate"

-----------------------------------------------------------------------------
(* C4 *)

\* C4: a non-optional placeholder whose variable is not a key of the mapping
\* fails with MissingVariable carrying exactly its variable name; the render
\* fails, and with that very error when no entry before it failed, also when
\* every other entry renders.
C4_AbsentPlaceholderIsMissingVariable ==
    Done => \A i \in Entries :
        AbsentPlaceholder(i) =>
            /\ ~result.ok
            /\ IsDone(slots[i]) => slots[i] = Err(MissingVariable(messages[i].variable_name))
            /\ EarlierAllOk(i) => result = Err(MissingVariable(messages[i].variable_name))

\* The placeholder is the only failing entry of a template that also holds a
\* resolved and a rendered pending entry.
C4_Witness ==
    /\ Done
    /\ api = "ChatTemplate"
    /\ Len(messages) = 3
    /\ AbsentPlaceholder(2)
    /\ messages[1].shape = "BaseMessage" /\ slots[1].ok
    /\ IsPending(3) /\ slots[3].ok
    /\ result = Err(MissingVariable(VarH))

-----------------------------------------------------------------------------
(* C5 *)

\* C5: a non-optional placeholder with a positive limit k whose variable
\* decodes to m messages emits exactly the first min(k, m) of them, in
\* their original order.
C5_PositiveLimitKeepsFirstMin ==
    Done => \A i \in Entries :
        (PresentPlaceholder(i) /\ messages[i].n_messages > 0 /\ IsDone(slots[i])
            /\ Decodes(i)) =>
            LET k == messages[i].n_messages
                h == HistoryOf(i)
            IN  /\ slots[i].ok
                /\ Len(slots[i].val) = Min(k, Len(h))
                /\ \A j \in 1..Len(slots[i].val) : slots[i].val[j] = h[j]
                /\ result.ok => Segment(i) = slots[i].val

\* One render with a history longer than one placeholder's limit and shorter
\* than another's.
C5_Witness ==
    /\ Done /\ result.ok
    /\ \E i \in Entries :
          /\ PresentPlaceholder(i) /\ Decodes(i)
          /\ messages[i].n_messages > 0
          /\ Len(HistoryOf(i)) > messages[i].n_messages
          /\ Len(slots[i].val) = messages[i].n_messages
    /\ \E i \in Entries :
          /\ PresentPlaceholder(i) /\ Decodes(i)
          /\ Len(HistoryOf(i)) > 0
          /\ Len(HistoryOf(i)) < messages[i].n_messages
          /\ Len(slots[i].val) = Len(HistoryOf(i))

-----------------------------------------------------------------------------
(* C6 *)

\* Entry i is a placeholder whose history is longer than its positive limit.
Capped(i) ==
    /\ PresentPlaceholder(i)
    /\ Decodes(i)
    /\ messages[i].n_messages > 0
    /\ Len(HistoryOf(i)) > messages[i].n_messages

LastN(h, n) == SubSeq(h, Len(h) - n + 1, Len(h))

FirstN(h, n) == SubSeq(h, 1, n)

\* C6 as stated: a history capped to N messages is spliced in as its last N
\* messages.
C6_Original ==
    (Done /\ result.ok) => \A i \in Entries :
        Capped(i) => Segment(i) = LastN(HistoryOf(i), messages[i].n_messages)

\* C6 (amended): a history capped to N messages is spliced into the output
\* as its first N messages.
C6_Amended ==
    (Done /\ result.ok) => \A i \in Entries :
        Capped(i) => Segment(i) = FirstN(HistoryOf(i), messages[i].n_messages)

\* A capped history whose first N and last N messages differ is in the output.
C6_Witness ==
    /\ Done /\ result.ok
    /\ \E i \in Entries :
          /\ Capped(i)
          /\ FirstN(HistoryOf(i), messages[i].n_messages)
                # LastN(HistoryOf(i), messages[i].n_messages)
          /\ Len(Segment(i)) = messages[i].n_messages

-----------------------------------------------------------------------------
(* C7 *)

\* C7: a non-optional placeholder whose limit is zero applies no
\* truncation: it emits every message of the decoded history, in order.
C7_ZeroLimitKeepsAll ==
    Done => \A i \in Entries :
        (PresentPlaceholder(i) /\ messages[i].n_messages = 0 /\ IsDone(slots[i])
            /\ Decodes(i)) =>
            /\ slots[i] = Ok(HistoryOf(i))
            /\ result.ok => Segment(i) = HistoryOf(i)

C7_Witness ==
    /\ Done /\ result.ok
    /\ \E i \in Entries :
          /\ PresentPlaceholder(i) /\ Decodes(i)
          /\ messages[i].n_messages = 0
          /\ Len(HistoryOf(i)) >= 3
          /\ Len(Segment(i)) = Len(HistoryOf(i))

-----------------------------------------------------------------------------
(* C8 *)

\* Entry i is an optional placeholder whose variable is not in the mapping.
OptionalAbsent(i) ==
    /\ IsPlaceholder(i)
    /\ messages[i].optional
    /\ messages[i].variable_name \notin DOMAIN variables

RemoveAt(ms, i) == SubSeq(ms, 1, i - 1) \o SubSeq(ms, i + 1, Len(ms))

\* The render of a template as a function of its entries and the mapping.
Rendered(ms) == Collect([j \in 1..Len(ms) |-> RenderEntry(api, ms[j], variables)])

\* C8: an optional placeholder whose variable is absent from the mapping
\* contributes zero messages and no error; the render returns what it
\* returns for the template without that entry.
C8_OptionalAbsentIsEmpty ==
    Done => \A i \in Entries :
        OptionalAbsent(i) =>
            /\ IsDone(slots[i]) => slots[i] = Ok(<<>>)
            /\ result = Rendered(RemoveAt(messages, i))

\* A successful render of a template of an optional placeholder between two
\* other entries, its variable absent.
C8_Witness ==
    /\ Done /\ result.ok
    /\ Len(messages) = 3
    /\ OptionalAbsent(2)
    /\ ~IsPlaceholder(1) /\ ~IsPlaceholder(3)
    /\ Len(result.val) = 2

-----------------------------------------------------------------------------
(* C9 *)

\* C9: when a non-optional placeholder's variable is in the mapping but its
\* value is no JSON list of messages, the entry fails with MalformedTemplate
\* carrying the decode error text and the whole render fails: an Err is
\* returned, holding no message of any entry.
C9_UndecodableIsMalformed ==
    Done => \A i \in Entries :
        (PresentPlaceholder(i) /\ ~Decodes(i)) =>
            LET e == MalformedTemplate(<<"Failed to deserialize placeholder: ">>
                                          \o from_str(Payload(i)).err)
            IN  /\ ~result.ok
                /\ "val" \notin DOMAIN result
                /\ IsDone(slots[i]) => slots[i] = Err(e)
                /\ EarlierAllOk(i) => result.err = e

\* The undecodable placeholder sits between two entries that render.
C9_Witness ==
    /\ Done
    /\ api = "ChatTemplate"
    /\ Len(messages) = 3
    /\ PresentPlaceholder(2) /\ ~Decodes(2)
    /\ slots[1].ok /\ slots[3].ok
    /\ result.err.kind = "MalformedTemplate"

-----------------------------------------------------------------------------
(* C10 *)

NoBraceCharacter(s) == \A i \in 1..Len(s) : s[i] # "{" /\ s[i] # "}"

\* C10: for every template string containing no '{' and no '}' character,
\* from_template and detect_template return Ok(PlainText) and
\* is_valid_template returns true.
C10_NoBracesIsPlainText ==
    (classified.done /\ NoBraceCharacter(template)) =>
        /\ classified.from_template = Ok("PlainText")
        /\ classified.detect_template = Ok("PlainText")
        /\ classified.is_valid_template

\* A classified string of several words and no brace.
C10_Witness ==
    /\ classified.done
    /\ NoBraceCharacter(template)
    /\ Len(template) >= 3
    /\ WordCount(template) >= 2
    /\ classified.from_template = Ok("PlainText")

-----------------------------------------------------------------------------
(* Classifier claims *)

\* Number of occurrences of the character c in s.
CountOf(s, c) == Cardinality({i \in 1..Len(s) : s[i] = c})

Unbalanced(s) == CountOf(s, "{") # CountOf(s, "}")

\* s[i .. i+w-1] is a run of exactly w characters c with no c before or after.
MaximalRun(s, i, w, c) == RunOf(s, i, w, c) /\ (i = 1 \/ s[i - 1] # c)

\* s holds a reference opened by exactly w '{' and closed by exactly w '}'.
HasReference(s, w) ==
    \E i \in 1..Len(s) :
        /\ MaximalRun(s, i, w, "{")
        /\ LET c == NextBrace(s, i + w) IN
           c <= Len(s) /\ MaximalRun(s, c, w, "}")

MixesStyles(s) == HasReference(s, 1) /\ HasReference(s, 2)

Failed(r, kind) == ~r.ok /\ r.err.kind = kind

\* C11: every string whose number of '{' differs from its number of '}' is
\* answered by from_template with MalformedTemplate, whatever brace style it
\* uses: never UnsupportedFormat, never a format.
C11_UnbalancedIsMalformed ==
    (classified.done /\ Unbalanced(template))
        => classified.from_template = Err(MalformedTemplate(<<"Malformed template">>))

\* An unbalanced string of single braces only has been classified.
C11_Witness ==
    /\ classified.done
    /\ Unbalanced(template)
    /\ \A i \in 1..(Len(template) - 1) :
          ~(IsBrace(template[i]) /\ IsBrace(template[i + 1]))
    /\ Failed(classified.from_template, "MalformedTemplate")

\* C12 (as stated): a balanced string holding both a single-brace and a
\* double-brace reference is answered by from_template with UnsupportedFormat.
C12_Original ==
    (classified.done /\ ~Unbalanced(template) /\ MixesStyles(template))
        => Failed(classified.from_template, "UnsupportedFormat")

\* C12 (amended): a balanced string holding both a single-brace and a
\* double-brace reference is not a valid template, and from_template answers
\* it with MalformedTemplate.
C12_Amended ==
    (classified.done /\ ~Unbalanced(template) /\ MixesStyles(template))
        => /\ ~classified.is_valid_template
           /\ classified.from_template = Err(MalformedTemplate(<<"Malformed template">>))

\* "{a}{{a}}" has been classified.
C12_Witness ==
    /\ classified.done
    /\ template = <<"{", "a", "}", "{", "{", "a", "}", "}">>
    /\ ~Unbalanced(template) /\ MixesStyles(template)
    /\ Failed(classified.from_template, "MalformedTemplate")

OneStyle(s) == has_only_single_braces(s) \/ has_only_double_braces(s)

\* C13: a string whose braces are balanced and of one style, with a brace
\* span of more than one word, is neither FmtString nor Mustache, and
\* from_template answers it with UnsupportedFormat, not MalformedTemplate.
C13_MultiWordIsUnsupported ==
    (/\ classified.done
     /\ ~Unbalanced(template)
     /\ OneStyle(template)
     /\ has_multiple_words_between_braces(template))
        => /\ ~classified.is_fmtstring
           /\ ~classified.is_mustache
           /\ classified.from_template =
                  Err(UnsupportedFormat(<<"Unsupported template format">>))

\* A doubled-brace string with a two-word span, "{{a a}}", has been classified.
C13_Witness ==
    /\ classified.done
    /\ template = <<"{", "{", "a", " ", "a", "}", "}">>
    /\ OneStyle(template)
    /\ has_multiple_words_between_braces(template)
    /\ Failed(classified.from_template, "UnsupportedFormat")

Count(b) == IF b THEN 1 ELSE 0

\* C14: for every string at most one of is_plain_text, is_mustache and
\* is_fmtstring is true; in particular none is both Mustache and FmtString.
C14_PredicatesExclusive ==
    classified.done
        => Count(classified.is_plain_text) + Count(classified.is_mustache)
             + Count(classified.is_fmtstring) <= 1

\* A string with braces satisfies one predicate and not the other two.
C14_Witness ==
    /\ classified.done
    /\ ~has_no_braces(template)
    /\ classified.is_fmtstring
    /\ ~classified.is_mustache
    /\ ~classified.is_plain_text

-----------------------------------------------------------------------------
(* Construction claims *)

\* from_messages has returned.
Built == pc # "start"

RoleOf(i) == input_pairs[i][1]

TextOf(i) == input_pairs[i][2]

\* C15: when from_messages succeeds on n pairs the struct holds n entries and
\* entry i is built from pair i: a Placeholder entry exactly when the role is
\* Placeholder; otherwise a resolved message of that role whose content is the
\* template text when the text classifies as PlainText, and else a pending
\* entry with the same role and the raw template text.
C15_EntryPerPair ==
    (Built /\ built.ok)
        => /\ Len(messages) = Len(input_pairs)
           /\ \A i \in 1..Len(input_pairs) :
                /\ i \in Entries
                /\ (IsPlaceholder(i) <=> RoleOf(i) = "Placeholder")
                /\ (RoleOf(i) # "Placeholder"
                      => IF from_template(TextOf(i)) = Ok("PlainText")
                         THEN messages[i] = BaseMessage(Message(RoleOf(i), TextOf(i)))
                         ELSE /\ IsPending(i)
                              /\ messages[i].role = RoleOf(i)
                              /\ messages[i].template.template = TextOf(i))

\* A list of a plain-text pair and a pair with a variable has been built.
C15_Witness ==
    /\ Built /\ built.ok
    /\ Len(input_pairs) = 2
    /\ \E i, j \in Entries :
          /\ messages[i].shape = "BaseMessage"
          /\ IsPending(j)
          /\ RoleOf(i) # RoleOf(j)

\* What the loop body makes of one pair's template.
PairResult(pair) ==
    IF pair[1] = "Placeholder" THEN MessagesPlaceholder_try_from(pair[2])
    ELSE Template_from_template(pair[2])

InvalidPairs == {i \in 1..Len(input_pairs) : ~PairResult(input_pairs[i]).ok}

\* C16: from_messages fails as a whole when some pair is invalid: it returns
\* the error of the first invalid pair in list order, whatever pairs follow
\* it (the call returns what it returns for the list cut after that pair),
\* and no struct holding the valid pairs.
C16_FirstInvalidPairFails ==
    (Built /\ InvalidPairs # {})
        => LET k == Least(InvalidPairs) IN
           /\ ~built.ok
           /\ built = Err(PairResult(input_pairs[k]).err)
           /\ built = from_messages(SubSeq(input_pairs, 1, k))
           /\ messages = <<>>

\* Two invalid pairs with different errors have been handed in.
C16_Witness ==
    /\ Built
    /\ InvalidPairs = {1, 2}
    /\ PairResult(input_pairs[1]).err # PairResult(input_pairs[2]).err
    /\ ~built.ok

\* C17: from_messages of the empty list succeeds with a struct of no entry;
\* rendering it with any mapping succeeds with the empty list, and format
\* returns the empty string.
C17_EmptyList ==
    input_pairs = <<>>
        => /\ (Built => built.ok /\ messages = <<>>)
           /\ (Done => result = Ok(<<>>))
           /\ (pc = "formatted" => result = Ok(<<>>))

\* The struct of the empty list has been formatted with a non-empty mapping.
C17_Witness ==
    /\ input_pairs = <<>>
    /\ pc = "formatted"
    /\ DOMAIN variables # {}
    /\ result.ok

-----------------------------------------------------------------------------
(* Composition claims *)

\* C18: + is associative, and the struct of no entry is its identity on
\* both sides.
C18_AssociativeWithIdentity ==
    /\ pc = "added1"
         => /\ (operands[2] = <<>> => messages = operands[1])
            /\ (operands[1] = <<>> => messages = operands[2])
    /\ pc = "added2"
         => messages = add(operands[1], add(operands[2], operands[3]))

\* Three non-empty structs, no two equal, have been summed.
C18_Witness ==
    /\ pc = "added2"
    /\ \A i \in 1..3 : operands[i] # <<>>
    /\ operands[1] # operands[2]
    /\ operands[2] # operands[3]
    /\ operands[1] # operands[3]

\* C19: the entries of a + b are those of a followed by those of b: the
\* length is len(a) + len(b), the order is kept, an entry occurring in both
\* is kept twice, and every entry is unchanged.
C19_SumIsConcatenation ==
    pc = "added1"
        => /\ Len(messages) = Len(operands[1]) + Len(operands[2])
           /\ \A i \in 1..Len(operands[1]) :
                i \in Entries /\ messages[i] = operands[1][i]
           /\ \A j \in 1..Len(operands[2]) :
                /\ Len(operands[1]) + j \in Entries
                /\ messages[Len(operands[1]) + j] = operands[2][j]

\* Two structs of two entries with an entry in common have been summed.
C19_Witness ==
    /\ pc = "added1"
    /\ Len(operands[1]) = 2
    /\ Len(operands[2]) = 2
    /\ operands[1][1] # operands[1][2]
    /\ \E i, j \in 1..2 : operands[1][i] = operands[2][j]

-----------------------------------------------------------------------------
(* format *)

\* The contents of ms[i..], each but the first of ms preceded by a newline.
RECURSIVE Lines(_, _)
Lines(ms, i) ==
    IF i > Len(ms) THEN <<>>
    ELSE (IF i = 1 THEN <<>> ELSE <<"\n">>) \o ms[i].content \o Lines(ms, i + 1)

\* C20: format returns the contents of the messages format_messages
\* produces, in order, joined by one newline, with no newline in front or at
\* the end (the empty string for no message); when format_messages fails,
\* format returns that error unchanged.
C20_FormatJoinsContents ==
    pc = "formatted"
        => LET r == Rendered(messages) IN
           IF r.ok THEN result = Ok(Lines(r.val, 1)) ELSE result = r

\* A render of three messages has been formatted.
C20_Witness ==
    /\ pc = "formatted"
    /\ Rendered(messages).ok
    /\ Len(Rendered(messages).val) = 3
    /\ result.ok

-----------------------------------------------------------------------------
(* merge_vars *)

\* C21: the map merge_vars returns has the union of both key sets as its key
\* set; a key of runtime_vars maps to the runtime value, also when that is
\* the empty string, and a key of partials alone maps to the partial value.
C21_RuntimeOverridesPartials ==
    pc = "merged"
        => /\ DOMAIN merged = DOMAIN partial_vars \cup DOMAIN variables
           /\ \A k \in DOMAIN variables : merged[k] = variables[k]
           /\ \A k \in DOMAIN partial_vars \ DOMAIN variables :
                merged[k] = partial_vars[k]

\* A key of both maps whose runtime value is the empty string and whose
\* partial value is not, next to a key of partials alone, has been merged.
C21_Witness ==
    /\ pc = "merged"
    /\ \E k \in DOMAIN partial_vars \cap DOMAIN variables :
          variables[k] = <<>> /\ partial_vars[k] # <<>> /\ merged[k] = <<>>
    /\ \E k \in DOMAIN partial_vars \ DOMAIN variables : merged[k] = partial_vars[k]

-----------------------------------------------------------------------------
(* Rendering claims *)

IsResolved(i) == messages[i].shape = "BaseMessage"

\* C22: a resolved entry renders to exactly one message, of the pair's role
\* and with the original template text as content, whatever the mapping
\* holds; so the render of a struct of resolved entries alone is the list of
\* these messages, the same for every mapping.
C22_ResolvedIgnoresMapping ==
    (Built /\ built.ok)
        => /\ \A i \in Entries :
                (IsResolved(i) /\ pc \in {"joining", "done", "formatted"}
                   /\ IsDone(slots[i]))
                    => slots[i] = Ok(<<Message(RoleOf(i), TextOf(i))>>)
           /\ (Done /\ \A i \in Entries : IsResolved(i))
                => result = Ok([i \in Entries |-> Message(RoleOf(i), TextOf(i))])

\* A struct of two resolved entries whose text is a variable's name has been
\* rendered with a mapping that holds this variable.
C22_Witness ==
    /\ Done
    /\ Len(messages) = 2
    /\ \A i \in Entries : IsResolved(i) /\ TextOf(i) \in DOMAIN variables
    /\ result.ok
    /\ Len(result.val) = 2

\* Entry i has been rendered and has failed.
HasFailed(i) == IsDone(slots[i]) /\ ~slots[i].ok

\* C23 (as stated): once an entry has failed, no entry positioned after it is
\* rendered before the error is returned: while a render is under way a
\* later entry that has not been rendered stays so, and a render that
\* returned in one step has rendered nothing behind the failed entry.
C23_Original ==
    [][/\ pc = "joining"
          => \A i, j \in Entries :
                (i < j /\ HasFailed(i) /\ ~IsDone(slots[j])) => ~IsDone(slots'[j])
       /\ (pc # "joining" /\ pc' = "done")
          => \A i, j \in 1..Len(slots') :
                (i < j /\ IsDone(slots'[i]) /\ ~slots'[i].ok) => ~IsDone(slots'[j])]_vars

\* C23 (amended): ChatPromptTemplate stops at the first failing entry: the
\* entries before it have been rendered, none behind it has, and its error
\* is returned.  ChatTemplate returns only when every entry has been
\* rendered, those behind a failed entry too, and then returns the error of
\* the failing entry of lowest position.
C23_Amended ==
    (Done /\ ~result.ok)
        => \E i \in Entries :
             /\ HasFailed(i)
             /\ result = slots[i]
             /\ \A k \in 1..(i - 1) : IsDone(slots[k]) /\ slots[k].ok
             /\ \A j \in (i + 1)..Len(messages) :
                  IsDone(slots[j]) <=> api = "ChatTemplate"

\* A ChatPromptTemplate render has failed at an entry that is not the last.
C23_Witness ==
    /\ Done
    /\ api = "ChatPromptTemplate"
    /\ ~result.ok
    /\ \E i \in Entries : HasFailed(i) /\ i < Len(messages) /\ ~IsDone(slots[i + 1])

\* The step belongs to a render call (invoke, format_messages, format).
RenderStep == pc' \in {"joining", "done", "formatted"}

\* C24: a render call leaves the struct's entries and the caller's mapping
\* as they are, whether it succeeds or fails; the result of invoke is that
\* of collecting the entries' own results for the entries and the mapping
\* at hand, and a call that follows a call with the same mapping (a failed
\* one too) returns the same result.
C24_RenderChangesNothing ==
    [][/\ RenderStep => messages' = messages
       /\ pc = "joining" => variables' = variables
       /\ pc' = "done"
            => result' = Collect([j \in 1..Len(messages') |->
                                    RenderEntry(api', messages'[j], variables')])
       /\ (pc' = pc /\ pc \in {"done", "formatted"} /\ variables' = variables)
            => result' = result]_vars

\* A render of a struct of several entries has failed and the struct is at
\* rest, open to the next render call.
C24_Witness ==
    /\ pc \in {"done", "formatted"}
    /\ ~result.ok
    /\ Len(messages) > 1
    /\ DOMAIN variables # {}

MessageRoles == {"System", "Human", "Ai"}

IsInvalidRole(r) == r # Pending /\ ~r.ok /\ r.err = InvalidRoleError

\* C25: in every struct that from_messages and + lead to, a pending entry
\* and a resolved entry carry a role of System, Human, Ai (an entry made from
\* a Placeholder pair is a Placeholder entry); and neither from_messages nor
\* an entry's render nor a render call returns InvalidRoleError.
C25_RolesAreMessageRoles ==
    /\ \A i \in Entries :
          /\ IsPending(i) => messages[i].role \in MessageRoles
          /\ IsResolved(i) => messages[i].message.role \in MessageRoles
    /\ ~IsInvalidRole(built)
    /\ \A i \in 1..Len(slots) : ~IsInvalidRole(slots[i])
    /\ ~IsInvalidRole(result)

\* A struct holding a resolved, a pending and a Placeholder entry has been
\* rendered.
C25_Witness ==
    /\ pc \in {"done", "formatted"}
    /\ \E i, j, k \in Entries : IsResolved(i) /\ IsPending(j) /\ IsPlaceholder(k)
    /\ result.ok

\* Entry i is an optional placeholder whose variable is in the mapping.
OptionalPresent(i) ==
    /\ IsPlaceholder(i)
    /\ messages[i].optional
    /\ messages[i].variable_name \in DOMAIN variables

\* C26: an optional placeholder contributes zero messages and no error also
\* when its variable is in the mapping, be the value a history (which is not
\* spliced in) or a string that does not decode (which raises no error); the
\* render returns what it returns for the template without that entry.
C26_OptionalPresentIsEmpty ==
    Done => \A i \in Entries :
        OptionalPresent(i) =>
            /\ IsDone(slots[i]) => slots[i] = Ok(<<>>)
            /\ result = Rendered(RemoveAt(messages, i))

\* A successful render of a template of an optional placeholder between two
\* other entries, with a history of three messages as its variable's value.
C26_Witness ==
    /\ Done /\ result.ok
    /\ Len(messages) = 3
    /\ OptionalPresent(2)
    /\ Decodes(2) /\ Len(HistoryOf(2)) = 3
    /\ ~IsPlaceholder(1) /\ ~IsPlaceholder(3)
    /\ Len(result.val) = 2

\* A successful render of a template whose optional placeholder's variable
\* holds a string that does not decode.
C26_UndecodableReached ==
    /\ Done /\ result.ok
    /\ \E i \in Entries : OptionalPresent(i) /\ ~Decodes(i)

\* C27: rendering distributes over +: with the structs a and b and the
\* mapping of the call, if the renders of a and of b both succeed the render
\* of a + b is the first list followed by the second; if the render of a
\* fails the render of a + b fails with the same error; if the render of a
\* succeeds and that of b fails the render of a + b fails with b's error.
C27_RenderDistributesOverSum ==
    Done
        => LET ra == Rendered(operands[1])
               rb == Rendered(operands[2])
           IN  /\ (ra.ok /\ rb.ok) => result = Ok(ra.val \o rb.val)
               /\ ~ra.ok => result = ra
               /\ (ra.ok /\ ~rb.ok) => result = rb

\* The sum of a struct whose render puts out messages and a struct whose
\* render fails has been rendered.
C27_Witness ==
    /\ Done
    /\ Rendered(operands[1]).ok
    /\ Rendered(operands[1]).val # <<>>
    /\ ~Rendered(operands[2]).ok
    /\ ~result.ok

\* The sum of two structs that both render to messages has been rendered.
C27_BothSucceedReached ==
    /\ Done
    /\ Rendered(operands[1]).ok /\ Rendered(operands[1]).val # <<>>
    /\ Rendered(operands[2]).ok /\ Rendered(operands[2]).val # <<>>
    /\ Rendered(operands[1]).val # Rendered(operands[2]).val

\* The sum of two structs whose renders fail with different errors has been
\* rendered.
C27_BothFailReached ==
    /\ Done
    /\ ~Rendered(operands[1]).ok
    /\ ~Rendered(operands[2]).ok
    /\ Rendered(operands[1]) # Rendered(operands[2])

-----------------------------------------------------------------------------
(* The two classifiers *)

Formats == {"PlainText", "FmtString", "Mustache"}

\* C28: from_template and detect_template agree on success: one returns
\* Ok(f) exactly when the other does.  They differ on failure only:
\* detect_template never returns MalformedTemplate, and from_template
\* returns it for every string that is not is_valid_template.
C28_ClassifiersAgreeOnSuccess ==
    classified.done
        => /\ \A f \in Formats :
                classified.from_template = Ok(f) <=> classified.detect_template = Ok(f)
           /\ classified.from_template.ok <=> classified.detect_template.ok
           /\ ~Failed(classified.detect_template, "MalformedTemplate")
           /\ ~classified.is_valid_template
                => Failed(classified.from_template, "MalformedTemplate")

\* A string that one classifier answers with MalformedTemplate and the other
\* with UnsupportedFormat has been classified.
C28_Witness ==
    /\ classified.done
    /\ Failed(classified.from_template, "MalformedTemplate")
    /\ Failed(classified.detect_template, "UnsupportedFormat")

\* A Mustache string has been classified by both.
C28_MustacheReached ==
    /\ classified.done
    /\ classified.from_template = Ok("Mustache")
    /\ classified.detect_template = Ok("Mustache")

====
